---- MODULE Spec2Model ----
(***************************************************************************)
(* StackVec<T, CAP>: a vector over an inline array of CAP slots            *)
(* (src/src/lib.rs) and its draining cursor Drain (src/src/drain.rs).      *)
(*                                                                         *)
(* Elements are resources named by the numbers in Elems.  A slot holds the *)
(* bytes of an element or Uninit; ptr::read, ptr::copy and                 *)
(* assume_init_read copy bytes and leave the source bytes where they were. *)
(***************************************************************************)
EXTENDS Integers, Sequences, FiniteSets, TLC

\* Bounds of the model: the capacity, and the width of usize in bits.
CAP == 3
UsizeBits == 8

\* One element more than the buffer can hold, so that a full buffer can be
\* offered another.
MaxElem == CAP + 1

Elems == 1..MaxElem
USIZE_MOD == 2 ^ UsizeBits
Slots == 0..(CAP - 1)
\* Indices a caller hands to remove() and to the bounds of drain().
Indices == 0..(CAP + 1)

\* MaybeUninit::uninit(): bytes that were never written.
Uninit == 0

\* No element's destructor panics.
NoBad == 0

VARIABLES
    sv,          \* the StackVec: [inner, length]
    cursor,      \* the live Drain, or NoCursor
    used,        \* the elements that have been handed to the buffer so far
    needs_drop,  \* mem::needs_drop::<T>()
    status,      \* "ok", "panicked" (unwinding), "crashed", "ub", "destroyed"
    dropped,     \* how many times each element's destructor has run
    last,        \* the last call: operation, arguments, result, slots touched
    duality,     \* history of a run of pushes followed by pops
    twin,        \* the StackVec that clone() returned, or NoTwin
    bad          \* the element whose destructor panics, or NoBad

vars == <<sv, cursor, used, needs_drop, status, dropped, last, duality, twin, bad>>

----------------------------------------------------------------------------
\* Helpers

Range(f) == {f[x] : x \in DOMAIN f}

\* The arrays handed to from_array: the elements 1..CAP in order, rotated by r.
Rotated(r) == [k \in 1..CAP |-> ((k - 1 + r) % CAP) + 1]

Arrays == {Rotated(r) : r \in {0, 1}}

\* One step of a call, in program order.
Ev(kind, idx, val) == [ev |-> kind, idx |-> idx, val |-> val]

\* Destructor runs recorded in a list of steps, added to the counts d.  A type
\* without drop glue (nd false) has no destructor to run.
DropCount(events, e) ==
    Cardinality({k \in 1..Len(events) : events[k].ev = "drop" /\ events[k].val = e})

ApplyDrops(d, events, nd) ==
    [e \in Elems |-> IF nd THEN d[e] + DropCount(events, e) ELSE d[e]]

\* What a call produced.
Outcome(s, res, msg, st, reads, events) ==
    [sv |-> s, res |-> res, msg |-> msg, status |-> st,
     reads |-> reads, events |-> events]

NoCursor ==
    [alive |-> FALSE, start |-> 0, len |-> 0, lo |-> 0, hi |-> 0,
     orig |-> <<>>, yielded |-> <<>>]

\* ptr::copy(src, dst, n): memmove of n slots inside the array.
copy(inner, src, dst, n) ==
    [k \in Slots |->
        IF dst <= k /\ k < dst + n THEN inner[(k - dst) + src] ELSE inner[k]]

----------------------------------------------------------------------------
\* StackVec

new == [inner |-> [k \in Slots |-> Uninit], length |-> 0]

from_array(arr) == [inner |-> [k \in Slots |-> arr[k + 1]], length |-> CAP]

as_slice(s) == [k \in 1..s.length |-> s.inner[k - 1]]

\* The producers handed to generate: a producer is the sequence of the
\* results of its calls, the k-th call returning g[k].
Producers == [1..(CAP + 1) -> Elems]

len(s) == s.length

is_empty(s) == s.length = 0

is_full(s) == s.length = CAP

capacity == CAP

\* remaining_capacity() that reports the whole capacity.
remaining_capacity_whole(s) == CAP

\* remaining_capacity(): CAP - length.
remaining_capacity(s) == CAP - s.length

push_unchecked(s, val) ==
    [inner |-> [s.inner EXCEPT ![s.length] = val], length |-> s.length + 1]

\* The loop of generate: calls k..n of the producer, each result pushed.
RECURSIVE generate_loop(_, _, _, _, _)
generate_loop(s, g, k, n, events) ==
    IF k > n
    THEN Outcome(s, <<"Ok", 0>>, "", "ok", {}, events)
    ELSE generate_loop(push_unchecked(s, g[k]), g, k + 1, n, Append(events, Ev("call", k, g[k])))

\* generate with a loop that stops one call early.
generate_short(g) == generate_loop(new, g, 1, CAP - 1, <<>>)

generate(g) == generate_loop(new, g, 1, CAP, <<>>)

\* filled(val): generate with the producer || val.clone(), whose every result
\* equals val.
filled(val) == generate([k \in 1..(CAP + 1) |-> val])

\* Clone for StackVec: ptr::copy of the first `length` slots into a new array;
\* T::clone is not called.
clone(s) ==
    [twin |-> [inner |-> [k \in Slots |-> IF k < s.length THEN s.inner[k] ELSE Uninit],
               length |-> s.length],
     out  |-> Outcome(s, <<"Ok", 0>>, "", "ok", 0..(s.length - 1),
                      <<Ev("copy", 0, s.length)>>)]

\* try_push with the capacity test off by one.
try_push_gt(s, val) ==
    IF s.length > CAP
    THEN Outcome(s, <<"Err", val>>, "", "ok", {}, <<>>)
    ELSE Outcome(push_unchecked(s, val), <<"Ok", 0>>, "", "ok", {}, <<>>)

try_push(s, val) ==
    IF s.length >= CAP
    THEN Outcome(s, <<"Err", val>>, "", "ok", {}, <<>>)
    ELSE Outcome(push_unchecked(s, val), <<"Ok", 0>>, "", "ok", {}, <<>>)

PushPanicMsg == "Attemp to push beyond the capacity of the array"

\* push that ignores the result of try_push.
push_silent(s, val) == try_push(s, val)

push(s, val) ==
    LET r == try_push(s, val) IN
    IF r.res[1] = "Err"
    THEN Outcome(r.sv, <<"panic", 0>>, PushPanicMsg, "panicked", {}, <<>>)
    ELSE r

\* Peekable::peek: pull the next element of the sequence into the peeked slot.
Peekable_peek(it) ==
    IF it.peeked = <<>> /\ it.rest # <<>>
    THEN [peeked |-> <<Head(it.rest)>>, rest |-> Tail(it.rest)]
    ELSE it

\* Peekable::next after a peek that found an element: hand the peeked one out.
Peekable_next(it) == [peeked |-> <<>>, rest |-> it.rest]

\* What the Peekable still yields, in order.
Remaining(it) == it.peeked \o it.rest

\* The loop of try_extend_from_iter; the Peekable handed back in Err is
\* recorded as one "rest" step for each element it still yields.
RECURSIVE try_extend_loop(_, _, _)
try_extend_loop(s, it, events) ==
    LET pk == Peekable_peek(it) IN
    IF pk.peeked = <<>>
    THEN Outcome(s, <<"Ok", 0>>, "", "ok", {}, events)
    ELSE IF s.length >= CAP
    THEN Outcome(s, <<"Err", Len(Remaining(pk))>>, "", "ok", {},
                 events \o [k \in 1..Len(Remaining(pk)) |-> Ev("rest", k, Remaining(pk)[k])])
    ELSE try_extend_loop(push_unchecked(s, pk.peeked[1]), Peekable_next(pk),
                         Append(events, Ev("push", s.length, pk.peeked[1])))

\* try_extend_from_iter that tests the capacity after taking the element.
try_extend_from_iter_lossy(s, items) ==
    LET o    == try_extend_loop(s, [peeked |-> <<>>, rest |-> items], <<>>)
        kept == {k \in 1..Len(o.events) : o.events[k].ev = "push" \/ o.events[k].idx > 1}
    IN [o EXCEPT !.events = [k \in 1..Cardinality(kept) |->
                               o.events[CHOOSE j \in kept :
                                   Cardinality({m \in kept : m < j}) = k - 1]]]

try_extend_from_iter(s, items) ==
    try_extend_loop(s, [peeked |-> <<>>, rest |-> items], <<>>)

\* The steps of unwinding that drop the local `ret` of remove_unchecked.
UnwindRet(i, ret, nd) == IF nd THEN <<Ev("drop", i, ret)>> ELSE <<>>

\* remove_unchecked that moves one element too few.
remove_unchecked_short(s, i, nd) ==
    IF i >= CAP
    THEN {Outcome(s, <<"panic", 0>>, "index out of bounds", "panicked", {}, <<>>)}
    ELSE
      LET ret == s.inner[i]
          n   == s.length - i - 1
      IN
      IF n >= 0
      THEN {Outcome([inner |-> copy(s.inner, i + 1, i, n - 1), length |-> s.length - 1],
                    <<"Some", ret>>, "", "ok", i..(i + n),
                    <<Ev("read", i, ret), Ev("copy", i + 1, n - 1), Ev("setlen", 0, s.length - 1)>>)}
      ELSE {Outcome(s, <<"panic", 0>>, "attempt to subtract with overflow", "panicked",
                    {i}, <<Ev("read", i, ret)>> \o UnwindRet(i, ret, nd))}

\* remove_unchecked(i): the set of results the build can produce.
\*  - self.inner[i] is a checked array index: i >= CAP panics;
\*  - assume_init_read copies the bytes of slot i out;
\*  - self.length - i - 1 underflows when i >= length: a panic in a build
\*    with overflow checks (the local `ret` is dropped while unwinding); in a
\*    build without them the count wraps and ptr::copy runs past the array,
\*    which either kills the process or returns having moved nothing inside
\*    the array (a zero-sized T);
\*  - self.length -= 1 wraps at the word size without overflow checks.
remove_unchecked(s, i, nd) ==
    IF i >= CAP
    THEN {Outcome(s, <<"panic", 0>>, "index out of bounds", "panicked", {}, <<>>)}
    ELSE
      LET ret == s.inner[i]
          n   == s.length - i - 1
      IN
      IF n >= 0
      THEN {Outcome([inner |-> copy(s.inner, i + 1, i, n), length |-> s.length - 1],
                    <<"Some", ret>>, "", "ok", i..(i + n),
                    <<Ev("read", i, ret), Ev("copy", i + 1, n), Ev("setlen", 0, s.length - 1)>>)}
      ELSE {Outcome(s, <<"panic", 0>>, "attempt to subtract with overflow", "panicked",
                    {i}, <<Ev("read", i, ret)>> \o UnwindRet(i, ret, nd)),
            Outcome(s, <<"crash", 0>>, "", "crashed", {i}, <<Ev("read", i, ret)>>),
            Outcome([inner |-> s.inner, length |-> (s.length - 1) % USIZE_MOD],
                    <<"Some", ret>>, "", "ub", {i},
                    <<Ev("read", i, ret), Ev("copy", i + 1, n % USIZE_MOD),
                      Ev("setlen", 0, (s.length - 1) % USIZE_MOD)>>)}

remove(s, i, nd) ==
    IF i <= s.length
    THEN remove_unchecked(s, i, nd)
    ELSE {Outcome(s, <<"None", 0>>, "", "ok", {}, <<>>)}

pop(s, nd) == remove(s, s.length, nd)

\* Whether one of the destructor runs in a list of steps is that of bd.
Panics(events, bd) ==
    bd # NoBad /\ \E k \in 1..Len(events) : events[k].ev = "drop" /\ events[k].val = bd

\* clear() that runs the destructors first and zeroes the length after.
clear_late(s, bd) ==
    LET drops == [k \in 1..s.length |-> Ev("drop", k - 1, s.inner[k - 1])] IN
    IF Panics(drops, bd)
    THEN Outcome(s, <<"panic", 0>>, "destructor panicked",
                 "panicked", 0..(s.length - 1), drops)
    ELSE Outcome([inner |-> s.inner, length |-> 0], <<"Ok", 0>>, "", "ok",
                 0..(s.length - 1), drops \o <<Ev("setlen", 0, 0)>>)

\* clear(): length = 0 first, then drop_in_place over the old slice.  When a
\* destructor panics the slice's drop glue still drops the elements after it
\* while the panic unwinds.
clear(s, bd) ==
    LET drops == [k \in 1..s.length |-> Ev("drop", k - 1, s.inner[k - 1])] IN
    IF Panics(drops, bd)
    THEN Outcome([inner |-> s.inner, length |-> 0], <<"panic", 0>>, "destructor panicked",
                 "panicked", 0..(s.length - 1), <<Ev("setlen", 0, 0)>> \o drops)
    ELSE Outcome([inner |-> s.inner, length |-> 0], <<"Ok", 0>>, "", "ok",
                 0..(s.length - 1), <<Ev("setlen", 0, 0)>> \o drops)

\* Drop for StackVec.
drop(s, nd, bd) ==
    IF nd THEN clear(s, bd) ELSE Outcome(s, <<"Ok", 0>>, "", "ok", {}, <<>>)

----------------------------------------------------------------------------
\* Drain

\* The bounds a RangeBounds<usize> can have: the indices up to CAP, and the
\* largest usize as an inclusive end.
EndBounds ==
    {<<"Unbounded", 0>>} \cup {<<k, i>> : k \in {"Included", "Excluded"}, i \in 0..CAP}
        \cup {<<"Included", USIZE_MOD - 1>>}

\* The range syntax (a.., a..b, a..=b, ..b, ..=b, ..) never excludes its start.
StartBounds == {<<"Unbounded", 0>>} \cup {<<"Included", i>> : i \in 0..CAP}

start_of(sb) ==
    CASE sb[1] = "Included" -> sb[2]
      [] sb[1] = "Excluded" -> sb[2] + 1
      [] sb[1] = "Unbounded" -> 0

\* The end bound with an inclusive end taken as exclusive.
end_of_exclusive(s, eb) ==
    CASE eb[1] = "Included" -> eb[2]
      [] eb[1] = "Excluded" -> eb[2]
      [] eb[1] = "Unbounded" -> s.length

end_of(s, eb) ==
    CASE eb[1] = "Included" -> eb[2] + 1
      [] eb[1] = "Excluded" -> eb[2]
      [] eb[1] = "Unbounded" -> s.length

Drain_new(s, start, n) ==
    [alive |-> TRUE, start |-> start, len |-> n, lo |-> start, hi |-> start + n,
     orig |-> s, yielded |-> <<>>]

\* The end of drain(range): as_slice()[start..end] is a checked slice index.
drain_slice(s, start, end) ==
    IF start > end
    THEN [cur |-> NoCursor,
          out |-> Outcome(s, <<"panic", 0>>, "slice index starts after its end", "panicked", {}, <<>>)]
    ELSE IF end > s.length
    THEN [cur |-> NoCursor,
          out |-> Outcome(s, <<"panic", 0>>, "range end index out of range", "panicked", {}, <<>>)]
    ELSE [cur |-> Drain_new(s, start, end - start),
          out |-> Outcome(s, <<"Ok", 0>>, "", "ok", {}, <<>>)]

\* drain(range): the set of results the build can produce.  `*i + 1` on the
\* largest usize panics in a build with overflow checks and wraps to 0 in a
\* build without them.
drain(s, sb, eb) ==
    LET start == start_of(sb)
        end   == end_of(s, eb)
    IN
    IF end >= USIZE_MOD
    THEN {[cur |-> NoCursor,
           out |-> Outcome(s, <<"panic", 0>>, "attempt to add with overflow", "panicked", {}, <<>>)],
          drain_slice(s, start, end % USIZE_MOD)}
    ELSE {drain_slice(s, start, end)}

Yield(idx, val, side) == [idx |-> idx, val |-> val, side |-> side]

\* Iterator::next: the slice iterator's front element, read out with ptr::read.
Drain_next(c, s) ==
    IF c.lo < c.hi
    THEN [cur |-> [c EXCEPT !.lo = c.lo + 1,
                            !.yielded = Append(@, Yield(c.lo, s.inner[c.lo], "front"))],
          out |-> Outcome(s, <<"Some", s.inner[c.lo]>>, "", "ok", {c.lo},
                          <<Ev("read", c.lo, s.inner[c.lo])>>)]
    ELSE [cur |-> c, out |-> Outcome(s, <<"None", 0>>, "", "ok", {}, <<>>)]

\* next_back that pulls from the front of the slice iterator.
Drain_next_back_front(c, s) ==
    IF c.lo < c.hi
    THEN [cur |-> [c EXCEPT !.lo = c.lo + 1,
                            !.yielded = Append(@, Yield(c.lo, s.inner[c.lo], "back"))],
          out |-> Outcome(s, <<"Some", s.inner[c.lo]>>, "", "ok", {c.lo},
                          <<Ev("read", c.lo, s.inner[c.lo])>>)]
    ELSE [cur |-> c, out |-> Outcome(s, <<"None", 0>>, "", "ok", {}, <<>>)]

\* DoubleEndedIterator::next_back.
Drain_next_back(c, s) ==
    IF c.lo < c.hi
    THEN [cur |-> [c EXCEPT !.hi = c.hi - 1,
                            !.yielded = Append(@, Yield(c.hi - 1, s.inner[c.hi - 1], "back"))],
          out |-> Outcome(s, <<"Some", s.inner[c.hi - 1]>>, "", "ok", {c.hi - 1},
                          <<Ev("read", c.hi - 1, s.inner[c.hi - 1])>>)]
    ELSE [cur |-> c, out |-> Outcome(s, <<"None", 0>>, "", "ok", {}, <<>>)]

\* len() that reports the length of the range the cursor was made for.
Drain_len_range(c) == c.len

\* ExactSizeIterator::len and both bounds of size_hint.
Drain_len(c) == c.hi - c.lo

\* for_each(drop) over the whole range, yielded elements included.
for_each_drop_all(c, s) ==
    [k \in 1..c.len |-> Ev("drop", c.start + (k - 1), s.inner[c.start + (k - 1)])]

\* self.for_each(drop): next() until it is empty, dropping each element.
for_each_drop(c, s) ==
    [k \in 1..(c.hi - c.lo) |-> Ev("drop", c.lo + (k - 1), s.inner[c.lo + (k - 1)])]

\* The end of Drain::drop that repairs the buffer only when elements were left.
Drain_repair_if_left(c, s, drops) ==
    LET src == c.start + c.len
        n   == s.length - (c.start + c.len)
    IN
    IF c.hi - c.lo > 0
    THEN Outcome([inner |-> copy(s.inner, src, c.start, n), length |-> s.length - c.len],
                 <<"Ok", 0>>, "", "ok",
                 {e.idx : e \in Range(drops)} \cup (src..(src + n - 1)),
                 drops \o <<Ev("copy", src, n), Ev("setlen", 0, s.length - c.len)>>)
    ELSE Outcome(s, <<"Ok", 0>>, "", "ok", {e.idx : e \in Range(drops)}, drops)

\* The end of Drain::drop, after the steps `drops`: move the tail down over the
\* range and shorten the buffer.
Drain_repair(c, s, drops) ==
    LET src == c.start + c.len
        n   == s.length - (c.start + c.len)
    IN
    IF c.len > 0
    THEN Outcome([inner |-> copy(s.inner, src, c.start, n), length |-> s.length - c.len],
                 <<"Ok", 0>>, "", "ok",
                 {e.idx : e \in Range(drops)} \cup (src..(src + n - 1)),
                 drops \o <<Ev("copy", src, n), Ev("setlen", 0, s.length - c.len)>>)
    ELSE Outcome(s, <<"Ok", 0>>, "", "ok", {e.idx : e \in Range(drops)}, drops)

\* The steps of a list up to and including the first destructor run of bd.
UpToPanic(events, bd) ==
    LET hit == {k \in 1..Len(events) : events[k].ev = "drop" /\ events[k].val = bd}
        k0  == CHOOSE k \in hit : \A m \in hit : k <= m
    IN SubSeq(events, 1, k0)

\* Drop for Drain that repairs the buffer first and drops what was left after.
Drain_drop_repair_first(c, s, nd, bd) ==
    LET r     == Drain_repair(c, s, <<>>)
        drops == IF nd THEN for_each_drop(c, r.sv) ELSE <<>>
    IN Outcome(r.sv, <<"Ok", 0>>, "", "ok",
               r.reads \cup {e.idx : e \in Range(drops)}, r.events \o drops)

\* Drop for Drain: drop what was not yielded, then repair the buffer.  A
\* destructor that panics unwinds out of drop() before the repair.
Drain_drop(c, s, nd, bd) ==
    LET drops == IF nd THEN for_each_drop(c, s) ELSE <<>> IN
    IF Panics(drops, bd)
    THEN Outcome(s, <<"panic", 0>>, "destructor panicked", "panicked",
                 {e.idx : e \in Range(UpToPanic(drops, bd))}, UpToPanic(drops, bd))
    ELSE Drain_repair(c, s, drops)

----------------------------------------------------------------------------
\* Bookkeeping shared by the actions

Last(op, arg, pre, o, cur) ==
    [op |-> op, arg |-> arg, res |-> o.res, msg |-> o.msg, pre |-> pre,
     reads |-> o.reads, events |-> o.events, cur |-> cur]

\* Elements owned by the buffer.
Held(s) == {s.inner[k] : k \in {j \in Slots : j < s.length}} \ {Uninit}

\* Elements a caller can hand to push: each element is handed over once, and
\* elements are numbered in the order the caller creates them.
Pushable ==
    LET free == Elems \ used IN
    {e \in free : \A f \in free : e <= f}

\* The sequence a caller hands to try_extend_from_iter: its next m elements.
Fresh(m) ==
    LET free == Elems \ used IN
    [k \in 1..m |-> CHOOSE e \in free : Cardinality({f \in free : f < e}) = k - 1]

Idle == status = "ok" /\ ~cursor.alive

NoDuality == [phase |-> "other", pushed |-> <<>>, popped |-> <<>>]

Commit(op, arg, o) ==
    /\ sv' = o.sv
    /\ status' = o.status
    /\ dropped' = ApplyDrops(dropped, o.events, needs_drop)
    /\ last' = Last(op, arg, sv, o, NoCursor)
    /\ UNCHANGED <<cursor, needs_drop, twin, bad>>

----------------------------------------------------------------------------
\* Actions

NoTwin == [alive |-> FALSE, sv |-> new]

\* The state after construction, whatever the destructors do.
Constructed ==
    /\ \/ sv = new
       \/ \E arr \in Arrays : sv = from_array(arr)
    /\ cursor = NoCursor
    /\ used = Held(sv)
    /\ needs_drop \in BOOLEAN
    /\ status = "ok"
    /\ dropped = [e \in Elems |-> 0]
    /\ last = Last(IF sv = new THEN "new" ELSE "from_array", <<>>, sv,
                   Outcome(sv, <<"Ok", 0>>, "", "ok", {}, <<>>), NoCursor)
    /\ duality = [phase |-> IF sv = new THEN "push" ELSE "other",
                  pushed |-> <<>>, popped |-> <<>>]
    /\ twin = NoTwin

\* No destructor panics.
Init ==
    /\ Constructed
    /\ bad = NoBad

\* The destructor of one element panics.
InitPanic ==
    /\ Constructed
    /\ needs_drop
    /\ bad \in Elems

Push ==
    /\ Idle
    /\ \E val \in Pushable :
         LET o == push(sv, val) IN
         /\ Commit("push", <<val>>, o)
         /\ used' = IF o.status = "ok" THEN used \cup {val} ELSE used
         /\ duality' = IF duality.phase = "push" /\ o.status = "ok"
                       THEN [duality EXCEPT !.pushed = Append(@, val)]
                       ELSE NoDuality

TryPush ==
    /\ Idle
    /\ \E val \in Pushable :
         /\ Commit("try_push", <<val>>, try_push(sv, val))
         /\ used' = IF try_push(sv, val).res[1] = "Ok" THEN used \cup {val} ELSE used
         /\ duality' = NoDuality

TryExtend ==
    /\ Idle
    /\ \E m \in 0..Cardinality(Elems \ used) :
         LET o == try_extend_from_iter(sv, Fresh(m)) IN
         /\ Commit("try_extend", <<Fresh(m)>>, o)
         /\ used' = used \cup Held(o.sv)
         /\ duality' = NoDuality

Remove ==
    /\ Idle
    /\ \E i \in Indices :
       \E o \in remove(sv, i, needs_drop) :
         /\ Commit("remove", <<i>>, o)
         /\ UNCHANGED used
         /\ duality' = NoDuality

Pop ==
    /\ Idle
    /\ \E o \in pop(sv, needs_drop) :
         /\ Commit("pop", <<>>, o)
         /\ UNCHANGED used
         /\ duality' = IF duality.phase \in {"push", "pop"}
                       THEN [phase |-> "pop", pushed |-> duality.pushed,
                             popped |-> Append(duality.popped, <<o.res, o.status>>)]
                       ELSE NoDuality

Clear ==
    /\ Idle
    /\ Commit("clear", <<>>, clear(sv, bad))
    /\ UNCHANGED used
    /\ duality' = NoDuality

\* The buffer goes out of scope, normally or while a panic unwinds.
Destroy ==
    /\ status \in {"ok", "panicked"}
    /\ ~cursor.alive
    /\ LET o == drop(sv, needs_drop, bad) IN
       /\ sv' = o.sv
       /\ status' = "destroyed"
       /\ dropped' = ApplyDrops(dropped, o.events, needs_drop)
       /\ last' = Last("drop", <<last.op, status>>, sv, o, NoCursor)
    /\ duality' = NoDuality
    /\ UNCHANGED <<cursor, used, needs_drop, twin, bad>>

Drain ==
    /\ Idle
    /\ \E sb \in StartBounds, eb \in EndBounds :
       \E d \in drain(sv, sb, eb) :
         /\ sv' = d.out.sv
         /\ cursor' = d.cur
         /\ status' = d.out.status
         /\ last' = Last("drain", <<sb, eb>>, sv, d.out, d.cur)
    /\ duality' = NoDuality
    /\ UNCHANGED <<used, needs_drop, dropped, twin, bad>>

DrainStep(op, d) ==
    /\ sv' = d.out.sv
    /\ cursor' = d.cur
    /\ last' = Last(op, <<>>, sv, d.out, cursor)
    /\ UNCHANGED <<used, needs_drop, status, dropped, duality, twin, bad>>

DrainNext ==
    /\ status = "ok"
    /\ cursor.alive
    /\ DrainStep("next", Drain_next(cursor, sv))

DrainNextBack ==
    /\ status = "ok"
    /\ cursor.alive
    /\ DrainStep("next_back", Drain_next_back(cursor, sv))

\* The cursor's scope ends.
DrainDrop ==
    /\ status = "ok"
    /\ cursor.alive
    /\ LET o == Drain_drop(cursor, sv, needs_drop, bad) IN
       /\ sv' = o.sv
       /\ status' = o.status
       /\ dropped' = ApplyDrops(dropped, o.events, needs_drop)
       /\ last' = Last("drain_drop", <<>>, sv, o, cursor)
    /\ cursor' = NoCursor
    /\ UNCHANGED <<used, needs_drop, duality, twin, bad>>

\* clone(): a second StackVec beside the first; a run clones once.
Clone ==
    /\ Idle
    /\ twin = NoTwin
    /\ LET c == clone(sv) IN
       /\ twin' = [alive |-> TRUE, sv |-> c.twin]
       /\ last' = Last("clone", <<>>, sv, c.out, NoCursor)
    /\ duality' = NoDuality
    /\ UNCHANGED <<sv, cursor, used, needs_drop, status, dropped, bad>>

\* The clone goes out of scope.
DestroyTwin ==
    /\ twin.alive
    /\ status \in {"ok", "panicked", "destroyed"}
    /\ LET o == drop(twin.sv, needs_drop, bad) IN
       /\ twin' = [alive |-> FALSE, sv |-> o.sv]
       /\ dropped' = ApplyDrops(dropped, o.events, needs_drop)
       /\ last' = Last("drop_twin", <<>>, twin.sv, o, NoCursor)
    /\ duality' = NoDuality
    /\ UNCHANGED <<sv, cursor, used, needs_drop, status, bad>>

\* generate(producer) in place of new().
Generate ==
    /\ Idle
    /\ last.op = "new"
    /\ \E g \in Producers :
         LET o == generate(g) IN
         /\ sv' = o.sv
         /\ last' = Last("generate", <<g>>, sv, o, NoCursor)
    /\ used' = Elems
    /\ duality' = NoDuality
    /\ UNCHANGED <<cursor, needs_drop, status, dropped, twin, bad>>

\* filled(val) in place of new().
Filled ==
    /\ Idle
    /\ last.op = "new"
    /\ \E val \in Elems :
         LET o == filled(val) IN
         /\ sv' = o.sv
         /\ last' = Last("filled", <<val>>, sv, o, NoCursor)
    /\ used' = Elems
    /\ duality' = NoDuality
    /\ UNCHANGED <<cursor, needs_drop, status, dropped, twin, bad>>

Next ==
    \/ Push
    \/ TryPush
    \/ TryExtend
    \/ Remove
    \/ Pop
    \/ Clear
    \/ Drain
    \/ DrainNext
    \/ DrainNextBack
    \/ DrainDrop
    \/ Destroy

Spec == Init /\ [][Next]_vars

\* The calls that run destructors (push runs none), on the elements of a
\* buffer built by new() or from_array(), one of which has a destructor that
\* panics.
NextPanic ==
    \/ Clear
    \/ Drain
    \/ DrainNext
    \/ DrainNextBack
    \/ DrainDrop
    \/ Destroy

SpecPanic == InitPanic /\ [][NextPanic]_vars

\* A buffer, its clone, and the end of both.
NextClone ==
    \/ Push
    \/ TryPush
    \/ Clear
    \/ Clone
    \/ Destroy
    \/ DestroyTwin

SpecClone == Init /\ [][NextClone]_vars

\* The constructors that fill the buffer.
NextCtor ==
    \/ Generate
    \/ Filled

SpecCtor == Init /\ [][NextCtor]_vars

----------------------------------------------------------------------------
\* Properties

\* Slot i of s holds an element that is alive and that no other slot of the
\* valid prefix holds as well.
ValidSlot(s, i) ==
    /\ s.inner[i] \in Elems
    /\ dropped[s.inner[i]] = 0
    /\ \A j \in Slots : (j < s.length /\ j # i) => s.inner[j] # s.inner[i]

\* C1 (invariant I1): whenever the buffer is usable, slots [0, length) hold
\* valid elements, and no call reads, returns, drops or moves a slot at an
\* index >= the length it was called with.
C1_ValidPrefixOnly ==
    /\ Idle => (sv.length <= CAP /\ \A i \in Slots : i < sv.length => ValidSlot(sv, i))
    /\ \A i \in last.reads : i < last.pre.length

\* C2 (invariant I2): 0 <= length <= CAP in every state.
C2_LengthInRange == 0 <= sv.length /\ sv.length <= CAP

\* C3 (push/pop duality): after new(), n pushes of v1..vn followed by k <= n
\* pops have returned Some(vn), Some(vn-1), ... without failing, and after the
\* n-th pop the buffer is empty.
C3_PushPopDuality ==
    duality.phase = "pop" =>
        LET n == Len(duality.pushed)
            k == Len(duality.popped)
        IN k <= n =>
             /\ \A j \in 1..k :
                  duality.popped[j] = <<(<<"Some", duality.pushed[n - j + 1]>>), "ok">>
             /\ k = n => is_empty(sv)

\* C4 (absence results): remove(i) with i >= len() and pop() on an empty
\* buffer return None, do not fail, and leave contents and length as they were.
C4_AbsenceResults ==
    (\/ last.op = "remove" /\ last.arg[1] >= last.pre.length
     \/ last.op = "pop" /\ last.pre.length = 0)
    => /\ last.res = <<"None", 0>>
       /\ status = "ok"
       /\ sv = last.pre

\* C5 (remove compaction): remove(i) with i < len() returns the element that
\* was at i, leaves the elements before i where they were, moves each element
\* after i down by one, and shortens the buffer by exactly one.
C5_RemoveCompaction ==
    (last.op = "remove" /\ last.arg[1] < last.pre.length) =>
        LET i == last.arg[1]
            p == last.pre
        IN /\ status = "ok"
           /\ last.res = <<"Some", p.inner[i]>>
           /\ sv.length = p.length - 1
           /\ \A j \in Slots : j < i => sv.inner[j] = p.inner[j]
           /\ \A j \in Slots : (i < j /\ j < p.length) => sv.inner[j - 1] = p.inner[j]

\* A removal from the middle: elements before and after the index.
C5_Witness ==
    /\ last.op = "remove"
    /\ status = "ok"
    /\ 0 < last.arg[1]
    /\ last.arg[1] + 1 < last.pre.length

\* C6 (try_push): with room it appends the value at index length, adds one to
\* length and returns Ok; on a full buffer it returns Err with the same value
\* and changes nothing.
C6_TryPush ==
    last.op = "try_push" =>
        LET v == last.arg[1]
            p == last.pre
        IN /\ status = "ok"
           /\ IF p.length < CAP
              THEN /\ last.res = <<"Ok", 0>>
                   /\ sv.length = p.length + 1
                   /\ sv.inner[p.length] = v
                   /\ \A j \in Slots : j # p.length => sv.inner[j] = p.inner[j]
              ELSE /\ last.res = <<"Err", v>>
                   /\ sv = p
                   /\ sv.length = CAP

\* try_push was refused on a full buffer.
C6_Witness ==
    /\ last.op = "try_push"
    /\ last.res[1] = "Err"
    /\ last.pre.length = CAP

\* C7 (push): on a full buffer it panics with the capacity message and the
\* buffer is as it was before the call; with room it appends at index length
\* and adds one to length, as push_unchecked does.
C7_Push ==
    last.op = "push" =>
        LET v == last.arg[1]
            p == last.pre
        IN IF p.length < CAP
           THEN /\ status = "ok"
                /\ sv.length = p.length + 1
                /\ sv.inner[p.length] = v
                /\ \A j \in Slots : j # p.length => sv.inner[j] = p.inner[j]
           ELSE /\ status = "panicked"
                /\ last.res[1] = "panic"
                /\ last.msg = "Attemp to push beyond the capacity of the array"
                /\ sv = p

\* push panicked on a full buffer.
C7_Witness ==
    /\ last.op = "push"
    /\ last.pre.length = CAP
    /\ status = "panicked"

FrontOnly(c) == \A k \in 1..Len(c.yielded) : c.yielded[k].side = "front"

\* C8 (drain yield order): the cursor made by drain(range) covers the
\* half-open range the bounds resolve to; pulled with next() only, its k-th
\* element is the one that was at index start + k - 1, and when next() comes
\* back empty every element of the range has been yielded.
C8_DrainYieldOrder ==
    /\ (last.op = "drain" /\ status = "ok") =>
         LET sb == last.arg[1]
             eb == last.arg[2]
         IN /\ cursor.alive
            /\ sb[1] = "Included" => cursor.start = sb[2]
            /\ sb[1] = "Unbounded" => cursor.start = 0
            /\ (eb[1] = "Included" /\ eb[2] < last.pre.length) =>
                 cursor.start + cursor.len = eb[2] + 1
            /\ eb[1] = "Excluded" => cursor.start + cursor.len = eb[2]
            /\ eb[1] = "Unbounded" => cursor.start + cursor.len = last.pre.length
            /\ cursor.start + cursor.len <= last.pre.length
    /\ (cursor.alive /\ FrontOnly(cursor)) =>
         /\ Len(cursor.yielded) <= cursor.len
         /\ \A k \in 1..Len(cursor.yielded) :
              /\ cursor.yielded[k].idx = cursor.start + k - 1
              /\ cursor.yielded[k].val = cursor.orig.inner[cursor.start + k - 1]
         /\ (last.op = "next" /\ last.res[1] = "Some") =>
              last.res[2] = cursor.yielded[Len(cursor.yielded)].val
         /\ (last.op = "next" /\ last.res[1] = "None") =>
              Len(cursor.yielded) = cursor.len

\* A range of two or more elements that starts after index 0 has been pulled
\* with next() until it came back empty.
C8_Witness ==
    /\ cursor.alive
    /\ FrontOnly(cursor)
    /\ last.op = "next"
    /\ last.res[1] = "None"
    /\ cursor.start >= 1
    /\ cursor.len >= 2

\* The steps of one kind in a list of steps.
Steps(events, kind) == {k \in 1..Len(events) : events[k].ev = kind}

\* C9 (drain repair): when the cursor's scope ends, however much of it was
\* pulled, the buffer is the original one with [a, b) removed: the elements
\* before a where they were, those from b on moved down by b - a, length
\* smaller by b - a, and the tail moved at most once.
C9_DrainRepair ==
    last.op = "drain_drop" =>
        LET c == last.cur
            p == c.orig
            a == c.start
            b == c.start + c.len
        IN /\ status = "ok"
           /\ ~cursor.alive
           /\ last.pre = p
           /\ sv.length = p.length - (b - a)
           /\ \A j \in Slots : j < a => sv.inner[j] = p.inner[j]
           /\ \A j \in Slots : (b <= j /\ j < p.length) => sv.inner[j - (b - a)] = p.inner[j]
           /\ Cardinality(Steps(last.events, "copy")) <= 1
           /\ Cardinality(Steps(last.events, "setlen")) <= 1

\* A cursor over a range with elements before and after it was abandoned
\* before its last element was pulled.
C9_Witness ==
    /\ last.op = "drain_drop"
    /\ last.cur.start >= 1
    /\ last.cur.len >= 1
    /\ last.cur.start + last.cur.len < last.pre.length
    /\ Len(last.cur.yielded) < last.cur.len

\* C10 (invariant I4): the cursor yields no index twice and none outside its
\* range; when it is finalized it has dropped only elements of the range it
\* had not yielded, each once and at its original index, and, for an element
\* type with a destructor, every element of the range was yielded or dropped.
C10_YieldedOrDropped ==
    /\ cursor.alive =>
         /\ \A k \in 1..Len(cursor.yielded) :
              /\ cursor.start <= cursor.yielded[k].idx
              /\ cursor.yielded[k].idx < cursor.start + cursor.len
         /\ \A k, m \in 1..Len(cursor.yielded) :
              k # m => cursor.yielded[k].idx # cursor.yielded[m].idx
    /\ last.op = "drain_drop" =>
         LET c  == last.cur
             Y  == {c.yielded[k].idx : k \in 1..Len(c.yielded)}
             dk == Steps(last.events, "drop")
             D  == {last.events[k].idx : k \in dk}
         IN /\ Cardinality(Y) = Len(c.yielded)
            /\ Cardinality(D) = Cardinality(dk)
            /\ Y \subseteq c.start..(c.start + c.len - 1)
            /\ D \subseteq c.start..(c.start + c.len - 1)
            /\ Y \cap D = {}
            /\ \A k \in dk : last.events[k].val = c.orig.inner[last.events[k].idx]
            /\ needs_drop => Y \cup D = c.start..(c.start + c.len - 1)
            /\ \A i \in c.start..(c.start + c.len - 1) :
                 dropped[c.orig.inner[i]] = IF needs_drop /\ i \in D THEN 1 ELSE 0

\* A cursor was finalized after yielding part of its range and dropped the
\* rest.
C10_Witness ==
    /\ last.op = "drain_drop"
    /\ needs_drop
    /\ Len(last.cur.yielded) >= 1
    /\ Steps(last.events, "drop") # {}

\* C11 (try_extend_from_iter): a sequence that fits is appended whole, in
\* order, with Ok; of a longer one exactly the first remaining_capacity()
\* elements are appended, the buffer is full, and Err hands back a sequence
\* that yields the rest in order, starting with the first element that did
\* not fit.
C11_TryExtend ==
    last.op = "try_extend" =>
        LET items == last.arg[1]
            p     == last.pre
            room  == CAP - p.length
            k     == IF Len(items) <= room THEN Len(items) ELSE room
            rest  == [j \in 1..Cardinality(Steps(last.events, "rest")) |->
                        last.events[k + j].val]
        IN /\ status = "ok"
           /\ sv.length = p.length + k
           /\ \A j \in Slots : j < p.length => sv.inner[j] = p.inner[j]
           /\ \A j \in 1..k : sv.inner[p.length + j - 1] = items[j]
           /\ Len(last.events) = k + Len(rest)
           /\ IF Len(items) <= room
              THEN last.res[1] = "Ok" /\ rest = <<>>
              ELSE /\ last.res[1] = "Err"
                   /\ sv.length = CAP
                   /\ rest = SubSeq(items, room + 1, Len(items))

\* A sequence longer than the room left was offered to a buffer that held an
\* element and had room for two more.
C11_Witness ==
    /\ last.op = "try_extend"
    /\ last.res[1] = "Err"
    /\ last.pre.length >= 1
    /\ CAP - last.pre.length >= 2
    /\ Len(last.arg[1]) > CAP - last.pre.length

\* C12 (clone): the clone has the same length and equal elements index for
\* index, no slot at index >= length is read, and the clone owns its elements
\* apart from the original: no element's destructor runs twice when both
\* buffers are destroyed.
C12_CloneFidelity ==
    /\ last.op = "clone" =>
         /\ twin.alive
         /\ twin.sv.length = last.pre.length
         /\ \A i \in Slots : i < last.pre.length => twin.sv.inner[i] = last.pre.inner[i]
         /\ \A i \in last.reads : i < last.pre.length
    /\ \A e \in Elems : dropped[e] <= 1

\* C13 (clear): length is 0 before the first destructor runs, the elements
\* that were valid are dropped once each in index order, the buffer is empty
\* afterwards even when a destructor panicked, and the destruction that
\* follows a clear drops nothing.
C13_ClearOrder ==
    /\ last.op = "clear" =>
         LET p == last.pre IN
         /\ sv.length = 0
         /\ Len(last.events) = p.length + 1
         /\ last.events[1] = Ev("setlen", 0, 0)
         /\ \A k \in 1..p.length :
              /\ last.events[k + 1] = Ev("drop", k - 1, p.inner[k - 1])
              /\ needs_drop => dropped[p.inner[k - 1]] = 1
         /\ status = (IF \E k \in 1..p.length : p.inner[k - 1] = bad THEN "panicked" ELSE "ok")
    /\ (last.op = "drop" /\ last.arg[1] = "clear") =>
         /\ last.pre.length = 0
         /\ Steps(last.events, "drop") = {}
         /\ \A e \in Elems : dropped[e] <= 1

\* The buffer was destroyed after a clear() of two or more elements in which
\* a destructor panicked.
C13_Witness ==
    /\ last.op = "drop"
    /\ last.arg = <<"clear", "panicked">>
    /\ dropped[bad] = 1
    /\ Cardinality({e \in Elems : dropped[e] = 1}) >= 2

\* C14 (capacity conservation): len() + remaining_capacity() = capacity() =
\* CAP, is_full() iff remaining_capacity() = 0, is_empty() iff len() = 0, and
\* a push that succeeds takes exactly one from remaining_capacity() while one
\* that is refused takes nothing.
C14_CapacityConservation ==
    /\ status \in {"ok", "panicked"} =>
         /\ len(sv) + remaining_capacity(sv) = capacity
         /\ capacity = CAP
         /\ len(sv) >= 0
         /\ remaining_capacity(sv) >= 0
         /\ is_full(sv) <=> remaining_capacity(sv) = 0
         /\ is_empty(sv) <=> len(sv) = 0
    /\ last.op \in {"push", "try_push"} =>
         remaining_capacity(sv) =
            IF last.res[1] = "Ok"
            THEN remaining_capacity(last.pre) - 1
            ELSE remaining_capacity(last.pre)

\* The push that fills the buffer.
C14_Witness ==
    /\ last.op = "try_push"
    /\ last.res[1] = "Ok"
    /\ is_full(sv)
    /\ remaining_capacity(last.pre) = 1

\* C15 (generate, filled): generate calls the producer exactly CAP times in
\* order and slot i holds the result of call i + 1, so a producer counting
\* from 1 gives [1..CAP]; filled(value) gives CAP slots equal to value.
C15_GenerateFilled ==
    /\ last.op = "generate" =>
         LET g == last.arg[1] IN
         /\ sv.length = CAP
         /\ Len(last.events) = CAP
         /\ \A k \in 1..CAP :
              /\ last.events[k] = Ev("call", k, g[k])
              /\ sv.inner[k - 1] = g[k]
         /\ (\A k \in 1..(CAP + 1) : g[k] = k) => as_slice(sv) = [k \in 1..CAP |-> k]
    /\ last.op = "filled" =>
         /\ sv.length = CAP
         /\ \A i \in Slots : sv.inner[i] = last.arg[1]

\* generate was called with the producer that counts from 1.
C15_Witness ==
    /\ last.op = "generate"
    /\ \A k \in 1..(CAP + 1) : last.arg[1][k] = k
    /\ sv.length = CAP

\* C16 (drain size): the count the cursor reports is the length of its range
\* less the elements yielded so far; next() and next_back() come back empty
\* exactly when that count is 0, and the count never grows.
C16_DrainSize ==
    /\ cursor.alive =>
         /\ Drain_len(cursor) = cursor.len - Len(cursor.yielded)
         /\ Drain_len(cursor) >= 0
    /\ (cursor.alive /\ last.op \in {"next", "next_back"}) =>
         /\ last.res[1] = "None" <=> Drain_len(last.cur) = 0
         /\ last.res[1] = "Some" => Drain_len(cursor) = Drain_len(last.cur) - 1
         /\ last.res[1] = "None" => Drain_len(cursor) = 0

\* A cursor over two or more elements came back empty after its range was
\* pulled from both ends.
C16_Witness ==
    /\ cursor.alive
    /\ last.op \in {"next", "next_back"}
    /\ last.res[1] = "None"
    /\ cursor.len >= 2
    /\ ~FrontOnly(cursor)
    /\ \E k \in 1..Len(cursor.yielded) : cursor.yielded[k].side = "front"

\* How many of the first j yields came from one side.
SideCount(c, j, side) == Cardinality({m \in 1..j : c.yielded[m].side = side})

\* C17 (double-ended drain): the k-th next() yields the element that was at
\* index a + k - 1, the k-th next_back() the one that was at b - k, and no
\* element is yielded from both ends.
C17_DoubleEnded ==
    cursor.alive =>
        /\ \A j \in 1..Len(cursor.yielded) :
             LET y == cursor.yielded[j] IN
             /\ y.side = "front" => y.idx = cursor.start + SideCount(cursor, j, "front") - 1
             /\ y.side = "back" =>
                  y.idx = cursor.start + cursor.len - SideCount(cursor, j, "back")
             /\ y.val = cursor.orig.inner[y.idx]
        /\ \A j, m \in 1..Len(cursor.yielded) :
             j # m => cursor.yielded[j].idx # cursor.yielded[m].idx

\* A range of three elements pulled front, back, front.
C17_Witness ==
    /\ cursor.alive
    /\ cursor.len >= 3
    /\ Len(cursor.yielded) >= 3
    /\ cursor.yielded[1].side = "front"
    /\ cursor.yielded[2].side = "back"
    /\ cursor.yielded[3].side = "front"

\* C18 (containment in drain): when the cursor ends, the buffer's length is
\* lowered before any element of the range is dropped, and the destruction of
\* the buffer after the cursor ended drops no element a second time.
C18_LengthBeforeCleanup ==
    /\ last.op = "drain_drop" =>
         \A d \in Steps(last.events, "drop") :
            \E l \in Steps(last.events, "setlen") : l < d
    /\ (last.op = "drop" /\ last.arg[1] = "drain_drop") =>
         \A e \in Elems : dropped[e] <= 1

\* C19 (drain termination order): when the cursor ends, every element not yet
\* yielded is dropped, at the index and with the bytes it had when the cursor
\* was made, before the tail is moved and before the length is lowered; the
\* tail is moved and the length lowered at most once.
C19_DropBeforeRepair ==
    (last.op = "drain_drop" /\ status = "ok") =>
        LET c  == last.cur
            dk == Steps(last.events, "drop")
            rk == Steps(last.events, "copy") \cup Steps(last.events, "setlen")
        IN /\ \A d \in dk : \A r \in rk : d < r
           /\ \A d \in dk :
                /\ c.lo <= last.events[d].idx
                /\ last.events[d].idx < c.hi
                /\ last.events[d].val = c.orig.inner[last.events[d].idx]
           /\ needs_drop => {last.events[d].idx : d \in dk} = c.lo..(c.hi - 1)
           /\ Cardinality(Steps(last.events, "copy")) <= 1
           /\ Cardinality(Steps(last.events, "setlen")) <= 1
           /\ c.len > 0 => Cardinality(rk) = 2

\* A cursor ended with elements left to drop and a tail to move.
C19_Witness ==
    /\ last.op = "drain_drop"
    /\ status = "ok"
    /\ needs_drop
    /\ last.cur.lo < last.cur.hi
    /\ last.cur.start + last.cur.len < last.pre.length

\* C20 (drain of a bad or empty range): a range whose bounds do not give
\* start <= end <= len() panics in drain(), with no cursor and the buffer as
\* it was; a cursor over an empty range yields nothing and leaves the buffer
\* as it was when it ends.
C20_BadOrEmptyRange ==
    /\ last.op = "drain" =>
         LET a == start_of(last.arg[1])
             b == end_of(last.pre, last.arg[2])
         IN ~(a <= b /\ b <= last.pre.length) =>
              /\ status = "panicked"
              /\ ~cursor.alive
              /\ sv = last.pre
              /\ last.events = <<>>
    /\ (last.op = "drain_drop" /\ last.cur.len = 0) =>
         /\ sv = last.pre
         /\ last.cur.yielded = <<>>
         /\ last.events = <<>>

====
